---- MODULE Spec2Model ----
(***************************************************************************)
(* Evergreen note taker: the resumable three-phase pipeline                *)
(* (extract concepts -> generate one note per concept -> interlink), its   *)
(* three service implementations (grokService.ts, geminiService.ts and the *)
(* OpenRouter-backed service), the retrying gateway each of them calls,    *)
(* and the App's session around a run.                                     *)
(*                                                                         *)
(* One action is one stretch of code between two suspension points         *)
(* (await): a network attempt resolving, a backoff or inter-call delay   *)
(* elapsing, the awaiting orchestrator resuming with the gateway's result, *)
(* a click handler.                                                        *)
(***************************************************************************)
EXTENDS Integers, Sequences, FiniteSets, TLC

\* ------------------------------------------------------------------ bounds

\* Longest title list the model's phase-1 reply holds.
MaxTitles == 2

\* ------------------------------------------------------- program constants

MaxRetries == 3
InitialDelay == 2000
InterCallDelay == 1500
PadWidth == 3

Variants == {"grok", "gemini", "openrouter"}

\* ----------------------------------------------------------------- strings

RECURSIVE Pow2(_)
\* Math.pow(2, attempt)
Pow2(n) == IF n = 0 THEN 1 ELSE 2 * Pow2(n - 1)

\* String.prototype.includes
Includes(s, sub) ==
  \E k \in 1..(Len(s) - Len(sub) + 1) : SubSeq(s, k, k + Len(sub) - 1) = sub

RECURSIVE PadStart(_, _, _)
\* String.prototype.padStart(width, ch)
PadStart(s, width, ch) ==
  IF Len(s) >= width THEN s ELSE PadStart(ch \o s, width, ch)

\* the id template: note_ followed by index.toString().padStart(3, '0')
NoteId(index) == "note_" \o PadStart(ToString(index), PadWidth, "0")

\* ---------------------------------------------------------- session values

\* error: null
Null == "<null>"
\* stage: ''
NoStage == ""

\* The title lists the model may answer phase 1 with: n distinct titles from
\* "A" on, or n times the title "A".
Letters == "ABCDEFGH"
TitleAt(k) == SubSeq(Letters, k, k)
TitleSeqs ==
  UNION {{[k \in 1..n |-> TitleAt(k)], [k \in 1..n |-> TitleAt(1)]} :
           n \in 0..MaxTitles}

InputText == "book"

getInitialState ==
  [status |-> "idle", stage |-> NoStage, inputText |-> "", titles |-> <<>>,
   unlinkedNotes |-> <<>>, finalNotes |-> <<>>, error |-> Null]

\* { ...prev, ...update }
Merge(prev, update) ==
  [f \in DOMAIN prev |-> IF f \in DOMAIN update THEN update[f] ELSE prev[f]]

\* --------------------------------------------------------------- the model
\* What the language model and the network may answer.

\* Reply text is a sequence of tokens: an opening fence, a JSON payload,
\* a closing fence, or text that is no JSON.
FenceOpen == [t |-> "fence_json", v |-> <<>>]
FenceClose == [t |-> "fence", v |-> <<>>]
Junk == [t |-> "junk", v |-> <<>>]
Json(v) == [t |-> "json", v |-> v]

Plain(v) == <<Json(v)>>
Fenced(v) == <<FenceOpen, Json(v), FenceClose>>
EmptyText == <<>>

\* finish_reason (chat completion) or finishReason (Gemini SDK)
FinishReasons(v) ==
  IF v = "gemini" THEN {"STOP", "MAX_TOKENS", "SAFETY"}
  ELSE {"stop", "length", "content_filter"}
Normal(v) == IF v = "gemini" THEN "STOP" ELSE "stop"

\* The texts a model may answer with, given the JSON values it may produce.
\* (one of them also wrapped in a code fence)
TextsOf(values) ==
  {Plain(v) : v \in values} \cup {Fenced(CHOOSE v \in values : TRUE), <<Junk>>}

\* A chat-completion reply: choices[0].message.content and finish_reason.
RepliesOf(v, values) ==
  {[content |-> tx, finish_reason |-> Normal(v)] : tx \in TextsOf(values)}
    \cup {[content |-> EmptyText, finish_reason |-> fr] : fr \in FinishReasons(v)}

\* Phase-2 payloads {content, quotes, source} for the title at index: the
\* model may word the first note in two ways.
Bodies(index) ==
  {[content |-> c, quotes |-> <<"q">>, source |-> "ch1"] :
     c \in IF index = 0 THEN {"c1", "c2"} ELSE {"c1"}}

\* A cross-reference marker appended to a note's prose.
Link(title) == " [[" \o title \o "]]"

OutsideTitle == "Z"

\* A phase-1 answer that decodes but is no array of strings: an object (a
\* value without length and items, written as a function on {0} so that it
\* differs from every array) ...
NotAnArray == [k \in {0} |-> "object"]
\* ... or an array that holds a number; the token stands for the number 7
\* (the titles of the model are letters)
NonString == "#7"
\* The Gemini calls carry a responseSchema; the chat-completion calls of the
\* other two services leave the shape of the answer to the model.
MalformedTitles(v) == IF v = "gemini" THEN {} ELSE {NotAnArray, <<NonString>>}

\* x.length is undefined for a value that is no array, and a comparison
\* with undefined is false
IsArray(x) == 0 \notin DOMAIN x
\* x.length === 0
LengthIsZero(x) == IsArray(x) /\ Len(x) = 0
\* k < x.length
BelowLength(k, x) == IsArray(x) /\ k < Len(x)
\* the number of items of an array; a value of another shape has none
Count(x) == IF IsArray(x) THEN Len(x) ELSE 0
\* whether title.substring is a function
HasSubstring(title) == title # NonString

\* Phase-3 batch payloads for the notes sent: the model may weave links in
\* (to the next note of the set, or to a title outside it), may propose ids
\* of its own, and may return fewer notes than it was sent.
BatchPayloads(sent) ==
  LET n == Len(sent)
      linked(mode, note, k) ==
        CASE mode = "none" -> note.content
          [] mode = "next" ->
               IF n > 1 THEN note.content \o Link(sent[(k % n) + 1].title)
               ELSE note.content
          [] OTHER -> note.content \o Link(OutsideTitle)
      answer(mode, ids, len) ==
        [k \in 1..len |->
           [id |-> IF ids = "keep" THEN sent[k].id ELSE "n1",
            title |-> sent[k].title,
            content |-> linked(mode, sent[k], k),
            quotes |-> sent[k].quotes,
            source |-> sent[k].source]]
  IN {answer("next", "own", n), answer("outside", "keep", n),
      answer("none", "own", IF n > 0 THEN n - 1 ELSE 0)}

\* Phase-3 per-note payloads: {content}
SinglePayloads(note, otherTitles) ==
  {[content |-> note.content], [content |-> note.content \o Link(OutsideTitle)]}
    \cup {[content |-> note.content \o Link(otherTitles[1])] :
            x \in IF otherTitles = <<>> THEN {} ELSE {1}}

\* ------------------------------------------------------------------ errors

\* A thrown value: an Error object with a message, or (OpenRouter service)
\* the plain object {status, body} built for a non-2xx response.
Err(msg) == [isError |-> TRUE, message |-> msg, status |-> 0, bodyMessage |-> ""]
ErrorInfo(status, bodyMessage) ==
  [isError |-> FALSE, message |-> "", status |-> status, bodyMessage |-> bodyMessage]
\* typeof error.message === 'string'
HasMessage(error) == error.isError

NoError == Err("")

\* the message of a failed decode: JSON.parse's SyntaxError
SyntaxErrorMessage == "Unexpected token"
\* the message of the TypeError for a call of substring on a number
TypeErrorMessage == "title.substring is not a function"
\* the message of a rejected fetch
FetchFailedMessage == "fetch failed"

\* The Gemini SDK throws an Error whose message is the JSON error body.
GeminiErrorMessage(code) ==
  IF code = 429
  THEN "{\"error\":{\"code\":429,\"message\":\"quota\",\"status\":\"RESOURCE_EXHAUSTED\"}}"
  ELSE "{\"error\":{\"code\":" \o ToString(code) \o ",\"message\":\"internal\",\"status\":\"INTERNAL\"}}"

\* ------------------------------------------------------------- the network
\* What one network attempt may come to.  status and text are the response
\* status and body text of a non-2xx answer (for the Gemini SDK: the code
\* and message of the error it throws).

DefaultReply == [content |-> EmptyText, finish_reason |-> "stop"]

Outcome(kind, status, text, reply) ==
  [kind |-> kind, status |-> status, text |-> text, reply |-> reply]

FailureOutcomes(v) ==
  IF v = "gemini"
  THEN {Outcome("sdk", 429, GeminiErrorMessage(429), DefaultReply),
        Outcome("sdk", 500, GeminiErrorMessage(500), DefaultReply),
        Outcome("transport", 0, FetchFailedMessage, DefaultReply)}
  ELSE {Outcome("http", 429, "slow down", DefaultReply),
        Outcome("http", 500, "oops", DefaultReply),
        IF v = "grok" THEN Outcome("http", 502, "upstream said 429", DefaultReply)
        ELSE Outcome("http", 503, "", DefaultReply),
        Outcome("transport", 0, FetchFailedMessage, DefaultReply),
        Outcome("badbody", 200, SyntaxErrorMessage, DefaultReply)}

\* Whether the attempt was answered with a rate-limit response.
RateLimited(o) == o.kind \in {"http", "sdk"} /\ o.status = 429

\* ----------------------------------------------------------------- gateway
\* callGrokWithRetries / callGeminiWithRetries / callOpenRouterWithRetries

\* the value the gateway's catch block receives for a failed attempt
Caught(v, o) ==
  CASE v = "grok" /\ o.kind = "http" ->
         Err("API request failed: " \o ToString(o.status) \o " " \o o.text)
    [] v = "openrouter" /\ o.kind = "http" -> ErrorInfo(o.status, o.text)
    [] OTHER -> Err(o.text)

isRateLimitError(v, error) ==
  CASE v = "grok" ->
         Includes(error.message, "429") \/ Includes(error.message, "too many requests")
    [] v = "gemini" ->
         Includes(error.message, "\"code\":429")
           \/ Includes(error.message, "RESOURCE_EXHAUSTED")
    [] OTHER -> error.status = 429

\* the condition under which the catch block waits and the loop goes on
WaitsBeforeRetry(v, a, error) ==
  IF v = "grok" THEN isRateLimitError(v, error) /\ a < MaxRetries - 1
  ELSE isRateLimitError(v, error)

\* a backoff that does not grow: every wait is the initial delay
ConstantDelay(a) == InitialDelay

\* a backoff that grows by the initial delay with every attempt
LinearDelay(a) == InitialDelay * (a + 1)

\* delayMs = initialDelay * Math.pow(2, attempt)
BackoffDelay(a) == InitialDelay * Pow2(a)

\* a loop that runs once more: attempt <= maxRetries
LoopOneMore(a) == a <= MaxRetries

\* the loop condition: attempt < maxRetries
LoopContinues(a) == a < MaxRetries

\* what the catch block throws when it does not wait
Rethrown(v, error) ==
  IF v # "openrouter" THEN error
  ELSE IF error.bodyMessage # ""
       THEN Err("API Error (" \o ToString(error.status) \o "): " \o error.bodyMessage)
       ELSE IF error.isError THEN error
            ELSE Err("An unknown API error occurred: {\"status\":"
                       \o ToString(error.status) \o "}")

\* what the gateway hands back for a 2xx answer: the Grok gateway returns
\* choices[0].message.content alone, the other two the whole response
Returned(v, reply) ==
  IF v = "grok" THEN [content |-> reply.content, finish_reason |-> ""]
  ELSE reply

\* ------------------------------------------------------------- normalizers
\* safeParseJsonResponse, three versions

\* .replace(/^fence json\s*/, '').replace(/\s*fence$/, '')
StripFence(text) ==
  LET a == IF text # <<>> /\ Head(text).t = FenceOpen.t THEN Tail(text) ELSE text
  IN IF a # <<>> /\ a[Len(a)].t = FenceClose.t THEN SubSeq(a, 1, Len(a) - 1) ELSE a

\* JSON.parse: the text decodes when it is exactly one JSON payload
JsonParse(text) ==
  IF Len(text) = 1 /\ text[1].t = "json"
  THEN [ok |-> TRUE, value |-> text[1].v, error |-> NoError]
  ELSE [ok |-> FALSE, value |-> <<>>, error |-> Err(SyntaxErrorMessage)]

Threw(error) == [ok |-> FALSE, value |-> <<>>, error |-> error]

safeParseGrok(reply) ==
  LET r == JsonParse(StripFence(reply.content))
  IN IF r.ok THEN r ELSE Threw(Err("Invalid response format from API"))

safeParseGemini(reply) ==
  IF reply.content = EmptyText
  THEN CASE reply.finish_reason = "SAFETY" ->
              Threw(Err("The request was blocked by safety settings . Please modify the input text."))
         [] reply.finish_reason = "MAX_TOKENS" ->
              Threw(Err("The response was cut off because it reached the maximum token limit."))
         [] OTHER -> Threw(Err("Gemini API returned an empty or invalid response."))
  ELSE LET r == JsonParse(StripFence(reply.content))
       IN IF r.ok THEN r
          ELSE Threw(Err("Invalid JSON response from API: " \o r.error.message))

safeParseOpenRouter(reply) ==
  IF reply.content = EmptyText
  THEN CASE reply.finish_reason = "content_filter" ->
              Threw(Err("The request was blocked by a content filter. Please modify the input text."))
         [] reply.finish_reason \in {"length", "max_tokens"} ->
              Threw(Err("The response was cut off because it reached the maximum token limit."))
         [] OTHER -> Threw(Err("OpenRouter API returned an empty or invalid response."))
  ELSE LET r == JsonParse(reply.content)
       IN IF r.ok THEN r
          ELSE Threw(Err("Invalid JSON response from API: " \o r.error.message))

safeParseJsonResponse(v, reply) ==
  CASE v = "grok" -> safeParseGrok(reply)
    [] v = "gemini" -> safeParseGemini(reply)
    [] OTHER -> safeParseOpenRouter(reply)

\* ------------------------------------------------------------------- state

VARIABLES
  variant,        \* the service module wired in
  session,        \* the session the progress updates are merged into
  store,          \* localStorage: the saved session, if the App has saved one
  pending,        \* the App's load effect: the parsed session it has set
  initialState,   \* the argument of the run in flight (or of the last run)
  pc,             \* where the run is suspended
  state,          \* the orchestrator's local state (the fields it reads)
  unlinkedNotes,  \* its local unlinkedNotes array
  i,              \* its loop index
  finalNotes,     \* its local finalNotes array
  log,            \* the run's calls, replies, progress updates, delays, outcome
  previous,       \* where the run before this one on the session failed, if it did
  arrays,         \* the unlinkedNotes arrays of the run, as objects
  attempt,        \* gateway: the loop variable
  lastError,      \* gateway: the last error caught
  gpc,            \* gateway: where the call is suspended
  gres,           \* gateway: what the call came to
  glog,           \* gateway: the attempts and waits of the call
  answered,       \* the network: what the latest attempt was answered with
  selectedNoteId, \* the App: the id of the note shown, or null
  viewMode,       \* the App: note viewer or knowledge graph
  clicked         \* the cross-reference clicked last and the view it was clicked in

appVars == <<variant, session, store, pending>>
runVars ==
  <<initialState, pc, state, unlinkedNotes, i, finalNotes, log, previous, arrays>>
gwVars == <<attempt, lastError, gpc, gres, glog, answered>>
viewVars == <<selectedNoteId, viewMode, clicked>>
vars == <<appVars, runVars, gwVars, viewVars>>

\* ------------------------------------------------------------ orchestrator
\* processBookWithGrok / processBookWithGemini (two versions)

CallEvent(phase, index, title) ==
  [e |-> "call", phase |-> phase, index |-> index, title |-> title]
\* the value a model call came back with, decoded
ReplyEvent(value) == [e |-> "reply", value |-> value]
\* the reply of a model call that its phase function could not decode
BadReplyEvent(reply) == [e |-> "badreply", reply |-> reply]
\* the page was closed or reloaded with the run suspended at pc (resolved:
\* the network had answered the call in flight); reloads: once or more often
CrashEvent(at, resolved, reloads) ==
  [e |-> "crash", at |-> at, resolved |-> resolved, reloads |-> reloads]
UpdateEvent(u) == [e |-> "update", u |-> u]
DelayEvent(ms) == [e |-> "delay", ms |-> ms]
ReturnEvent(notes) == [e |-> "return", value |-> notes]
ThrowEvent(message) == [e |-> "throw", message |-> message]

RECURSIVE MergeEvents(_, _)
\* onProgress: every update of the stretch merged into the session, in order
MergeEvents(prev, events) ==
  IF events = <<>> THEN prev
  ELSE MergeEvents(IF Head(events).e = "update" THEN Merge(prev, Head(events).u)
                   ELSE prev,
                   Tail(events))

\* title.substring(0, 40)
Substring(s, from, to) ==
  SubSeq(s, from + 1, IF to < Len(s) THEN to ELSE Len(s))

Stage1 == "Phase 1/3: Extracting core concepts..."
Stage2(index, n, title) ==
  "Phase 2/3: Generating note " \o ToString(index + 1) \o "/" \o ToString(n)
    \o ": \"" \o Substring(title, 0, 40) \o "...\""
Stage3 == "Phase 3/3: Weaving the knowledge graph..."
Stage3Single(index, n, title) ==
  "Phase 3/3: Interlinking note " \o ToString(index + 1) \o "/" \o ToString(n)
    \o ": \"" \o Substring(title, 0, 40) \o "...\""

GenericError == "An unknown error occurred while processing the book."

\* JSON.parse(error.message) of the Gemini orchestrator's catch block: the
\* SDK's JSON error bodies decode, with error.message inside
ParsedErrorMessage(message) ==
  CASE message = GeminiErrorMessage(429) -> "quota"
    [] message = GeminiErrorMessage(500) -> "internal"
    [] OTHER -> ""

descriptiveError(v, error) ==
  CASE v = "grok" -> IF HasMessage(error) THEN error.message ELSE GenericError
    [] v = "gemini" ->
         IF HasMessage(error)
         THEN IF ParsedErrorMessage(error.message) # ""
              THEN "API Error: " \o ParsedErrorMessage(error.message)
              ELSE error.message
         ELSE GenericError
    [] OTHER -> IF error.isError THEN error.message ELSE GenericError

ThrownMessage(v, d) ==
  CASE v = "grok" -> "Failed to process book with Grok: " \o d
    [] v = "gemini" -> "Failed to process book with Gemini: " \o d
    [] OTHER -> "Failed to process book with AI: " \o d

\* notes.map((note, index) => ({ ...note, id: note_NNN })) of interlinkNotes
notesWithTempIds(notes) ==
  [k \in 1..Len(notes) |-> [id |-> NoteId(k - 1)] @@ notes[k]]

\* a target list that leaves the note's own title in
allOfTheTitles(note, allTitles) == allTitles

\* allTitles.filter(t => t !== noteToLink.title)
otherTitles(note, allTitles) == SelectSeq(allTitles, LAMBDA t : t # note.title)

allNoteTitles(notes) == [k \in 1..Len(notes) |-> notes[k].title]

\* Where a stretch of orchestrator code leaves the run: the next suspension
\* point, the locals, and the events of the stretch.
K(p, st, uN, index, fN, ev) ==
  [pc |-> p, state |-> st, unlinkedNotes |-> uN, i |-> index, finalNotes |-> fN,
   events |-> ev]

\* return state.finalNotes
Finish(st, uN, index, fN, ev) ==
  K("returned", st, uN, index, fN, ev \o <<ReturnEvent(st.finalNotes)>>)

\* state = { ...state, finalNotes }; onProgress({ finalNotes, status, stage })
Complete(st, uN, index, final, ev) ==
  Finish([st EXCEPT !.finalNotes = final], uN, index, final,
         ev \o <<UpdateEvent([finalNotes |-> final, status |-> "completed",
                              stage |-> NoStage])>>)

\* a catch block that throws without recording the failure in the session
FailUnrecorded(v, st, uN, index, fN, error) ==
  K("threw", st, uN, index, fN,
    <<ThrowEvent(ThrownMessage(v, descriptiveError(v, error)))>>)

\* a catch block that records the failure twice
FailTwice(v, st, uN, index, fN, error) ==
  K("threw", st, uN, index, fN,
    <<UpdateEvent([status |-> "error", error |-> descriptiveError(v, error)]),
      UpdateEvent([status |-> "error", error |-> descriptiveError(v, error)]),
      ThrowEvent(ThrownMessage(v, descriptiveError(v, error)))>>)

\* a catch block that records the failure and returns what there is
FailQuietly(v, st, uN, index, fN, error) ==
  K("returned", st, uN, index, fN,
    <<UpdateEvent([status |-> "error", error |-> descriptiveError(v, error)]),
      ReturnEvent(st.finalNotes)>>)

\* the catch block of the run
Fail(v, st, uN, index, fN, error) ==
  K("threw", st, uN, index, fN,
    <<UpdateEvent([status |-> "error", error |-> descriptiveError(v, error)]),
      ThrowEvent(ThrownMessage(v, descriptiveError(v, error)))>>)

\* one iteration of the per-note interlink loop, up to its model call
Phase3Iter(st, uN, index, fN, ev) ==
  LET noteToLink == st.unlinkedNotes[index + 1]
  IN K("phase3", st, uN, index, fN,
       ev \o <<UpdateEvent([stage |-> Stage3Single(index, Len(st.unlinkedNotes),
                                                   noteToLink.title)]),
               \* the call's prompt carries the list of link targets
               CallEvent(3, index, noteToLink.title)
                 @@ [targets |-> otherTitles(noteToLink,
                                             allNoteTitles(st.unlinkedNotes))]>>)

\* the phase-3 guard
Phase3Needed(st) == st.status # "completed" \/ Len(st.finalNotes) = 0

EnterPhase3(v, st, uN, index, ev) ==
  IF Phase3Needed(st)
  THEN IF v = "openrouter"
       THEN IF Len(st.unlinkedNotes) = 0
            THEN Complete(st, uN, 0, <<>>, ev)
            ELSE Phase3Iter(st, uN, 0, <<>>, ev)
       ELSE K("phase3", st, uN, index, <<>>,
              ev \o <<UpdateEvent([stage |-> Stage3]), CallEvent(3, 0, "")>>)
  ELSE Finish(st, uN, index, <<>>, ev)

\* one iteration of the phase-2 loop, up to its model call
\* (title.substring(0, 40) of a title that is no string is a TypeError)
Phase2Iter(v, st, uN, index, ev) ==
  LET title == st.titles[index + 1]
  IN IF HasSubstring(title)
     THEN K("phase2", st, uN, index, <<>>,
            ev \o <<UpdateEvent([stage |-> Stage2(index, Len(st.titles), title)]),
                    CallEvent(2, index, title)>>)
     ELSE [Fail(v, st, uN, index, <<>>, Err(TypeErrorMessage))
             EXCEPT !.events = ev \o @]

\* a phase-2 loop that ignores the checkpoint and starts over
startIndexFromZero(uN) == 0

\* const startIndex = unlinkedNotes.length
startIndex(uN) == Len(uN)

EnterPhase2(v, st, ev) ==
  LET uN == st.unlinkedNotes
  IN IF BelowLength(startIndex(uN), st.titles)
     THEN Phase2Iter(v, st, uN, startIndex(uN), ev)
     ELSE EnterPhase3(v, [st EXCEPT !.unlinkedNotes = uN], uN, startIndex(uN), ev)

\* a phase-1 guard that ignores the recorded titles
Phase1Always(st) == TRUE

\* the phase-1 guard
Phase1Needed(st) == LengthIsZero(st.titles)

\* the run from its call to its first suspension
Begin(v, init) ==
  IF Phase1Needed(init)
  THEN K("phase1", init, <<>>, 0, <<>>,
         <<UpdateEvent([stage |-> Stage1, status |-> "processing"]),
           CallEvent(1, 0, "")>>)
  ELSE EnterPhase2(v, init, <<>>)

Reverse(s) == IF IsArray(s) THEN [k \in 1..Len(s) |-> s[Len(s) + 1 - k]] ELSE s

\* a phase 1 that does not keep the order of the model's titles
AfterTitlesReversed(v, st, titles) ==
  EnterPhase2(v, [st EXCEPT !.titles = Reverse(titles)],
              <<UpdateEvent([titles |-> Reverse(titles)])>>)

\* a phase 1 that goes on to phase 2 without reporting the titles
AfterTitlesUnsaved(v, st, titles) ==
  EnterPhase2(v, [st EXCEPT !.titles = titles], <<>>)

\* state = { ...state, titles }; onProgress({ titles })
AfterTitles(v, st, titles) ==
  EnterPhase2(v, [st EXCEPT !.titles = titles], <<UpdateEvent([titles |-> titles])>>)

\* an iteration that goes on to the next title without the delay
AfterBodyNoDelay(v, st, uN, index, body) ==
  LET title == st.titles[index + 1]
      uN2 == Append(uN, body @@ [title |-> title])
      st2 == [st EXCEPT !.unlinkedNotes = uN2]
      ev == <<UpdateEvent([unlinkedNotes |-> uN2])>>
  IN IF index < Len(st2.titles) - 1
     THEN Phase2Iter(v, st2, uN2, index + 1, ev)
     ELSE EnterPhase3(v, st2, uN2, index + 1, ev)

\* an iteration that pushes the note without reporting it
AfterBodyUnsaved(v, st, uN, index, body) ==
  LET title == st.titles[index + 1]
      uN2 == Append(uN, body @@ [title |-> title])
      st2 == [st EXCEPT !.unlinkedNotes = uN2]
  IN IF index < Len(st2.titles) - 1
     THEN K("delay2", st2, uN2, index, <<>>, <<DelayEvent(InterCallDelay)>>)
     ELSE EnterPhase3(v, st2, uN2, index + 1, <<>>)

\* unlinkedNotes.push({ title, ...body }) and what follows in the iteration
AfterBody(v, st, uN, index, body) ==
  LET title == st.titles[index + 1]
      uN2 == Append(uN, body @@ [title |-> title])
      st2 == [st EXCEPT !.unlinkedNotes = uN2]
      ev == <<UpdateEvent([unlinkedNotes |-> uN2])>>
  IN IF index < Len(st2.titles) - 1
     THEN K("delay2", st2, uN2, index, <<>>, ev \o <<DelayEvent(InterCallDelay)>>)
     ELSE EnterPhase3(v, st2, uN2, index + 1, ev)

\* final notes that keep the ids of the model's reply
FinalIdsOfModel(linkedNotes) == linkedNotes

\* the ids of the final notes of the batch strategy
FinalIds(linkedNotes) ==
  [k \in 1..Len(linkedNotes) |-> [id |-> NoteId(k - 1)] @@ linkedNotes[k]]

AfterBatch(st, uN, index, linkedNotes) ==
  Complete(st, uN, index, FinalIds(linkedNotes), <<>>)

\* finalNotes.push({ ...noteToLink, id, content: newContent })
LinkedNote(noteToLink, index, newContent) ==
  [id |-> NoteId(index), content |-> newContent] @@ noteToLink

AfterSingle(st, uN, index, fN, parsed) ==
  LET fN2 == Append(fN, LinkedNote(st.unlinkedNotes[index + 1], index, parsed.content))
  IN IF index < Len(st.unlinkedNotes) - 1
     THEN K("delay3", st, uN, index, fN2, <<DelayEvent(InterCallDelay)>>)
     ELSE Complete(st, uN, index + 1, fN2, <<>>)

\* ------------------------------------------------------------ the actions

NoResult == [ok |-> FALSE, error |-> NoError]
Pending == Outcome("pending", 0, "", DefaultReply)
Answered2xx == Outcome("ok", 200, "", DefaultReply)

\* a gateway call begins: attempt = 0, the first fetch in flight
StartCall ==
  /\ attempt' = 0
  /\ lastError' = NoError
  /\ gpc' = "fetch"
  /\ gres' = NoResult
  /\ glog' = << <<"attempt", 0>> >>
  /\ answered' = Pending

NoCall ==
  /\ attempt' = 0
  /\ lastError' = NoError
  /\ gpc' = "none"
  /\ gres' = NoResult
  /\ glog' = <<>>
  /\ answered' = Pending

\* the stretch k, entered with the decoded reply of the call it awaited
WithReply(value, k) == [k EXCEPT !.events = <<ReplyEvent(value)>> \o @]
\* the stretch k, entered with a reply that did not decode
WithBadReply(reply, k) == [k EXCEPT !.events = <<BadReplyEvent(reply)>> \o @]

\* The App's save effect: every committed session is written to the store.
\* (stored = <<>>: no App around the service, nothing is stored)
Saved(stored, s) == IF stored = <<>> THEN <<>> ELSE <<s>>

NoClick == [title |-> Null, selectedNoteId |-> Null, viewMode |-> "viewer"]

\* runProcess, once the service has returned its notes:
\* if (finalNotes.length > 0) setSelectedNoteId(finalNotes[0].id)
\* (stored = <<>>: no App around the service)
SelectFirst(stored, k) ==
  IF stored # <<>> /\ k.pc = "returned" /\ Len(k.state.finalNotes) > 0
  THEN /\ selectedNoteId' = k.state.finalNotes[1].id
       /\ clicked' = NoClick
       /\ UNCHANGED viewMode
  ELSE UNCHANGED viewVars

\* ------------------------------------------------------------------ arrays
\* The unlinkedNotes arrays a run handles, as objects: cells holds the items
\* of every array by its reference; passed is the array of the session the
\* caller passed in, local the run's own array (0 before it is made), and
\* emitted the arrays handed to onProgress, in order.
NoArrays == [cells |-> <<>>, passed |-> 0, local |-> 0, emitted |-> <<>>]

\* the same array once more instead of a copy
shareArray(h, ref) == [arrays |-> h, ref |-> ref]

\* [...array]: a new array with the items of the old one
spread(h, ref) ==
  [arrays |-> [h EXCEPT !.cells = Append(@, h.cells[ref])],
   ref |-> Len(h.cells) + 1]

\* array.push(item)
push(h, ref, item) == [h EXCEPT !.cells[ref] = Append(@, item)]

\* the arrays when the orchestrator is called: the caller's only
ArraysAtCall(initial) ==
  [NoArrays EXCEPT !.cells = <<initial.unlinkedNotes>>, !.passed = 1]

\* const unlinkedNotes = [...state.unlinkedNotes]
makeLocal(h) ==
  LET c == spread(h, h.passed)
  IN [c.arrays EXCEPT !.local = c.ref]

\* state = { ...state, unlinkedNotes: [...unlinkedNotes] }; onProgress(...)
emitCopy(h) ==
  LET c == spread(h, h.local)
  IN [c.arrays EXCEPT !.emitted = Append(@, c.ref)]

HasDataUpdate(events, f) ==
  \E n \in 1..Len(events) : events[n].e = "update" /\ f \in DOMAIN events[n].u

\* What a stretch of the run that started at from and led to k does to the
\* arrays: past phase 1 it makes the local array; a note that k has more
\* than the local array was pushed; a reported array is a copy of the local.
ArraysStep(h, from, k) ==
  LET reached == /\ h.local = 0
                 /\ k.pc # "phase1"
                 /\ from = "phase1" => HasDataUpdate(k.events, "titles")
      a == IF reached THEN makeLocal(h) ELSE h
      b == IF a.local # 0 /\ Len(k.unlinkedNotes) > Len(a.cells[a.local])
           THEN push(a, a.local, k.unlinkedNotes[Len(k.unlinkedNotes)])
           ELSE a
  IN IF b.local # 0 /\ HasDataUpdate(k.events, "unlinkedNotes")
     THEN emitCopy(b) ELSE b

\* the run goes on to its next suspension point
Continue(k) ==
  /\ arrays' = ArraysStep(arrays, pc, k)
  /\ pc' = k.pc
  /\ state' = k.state
  /\ unlinkedNotes' = k.unlinkedNotes
  /\ i' = k.i
  /\ finalNotes' = k.finalNotes
  /\ log' = log \o k.events
  /\ session' = MergeEvents(session, k.events)
  /\ store' = Saved(store, session')
  /\ SelectFirst(store, k)
  /\ IF k.pc \in {"phase1", "phase2", "phase3"} THEN StartCall ELSE NoCall

\* the JSON values the model may answer the call in flight with
ReplyValues ==
  CASE pc = "phase1" -> TitleSeqs
    [] pc = "phase2" -> Bodies(i)
    [] pc = "phase3" /\ variant = "openrouter" ->
         SinglePayloads(state.unlinkedNotes[i + 1],
                        otherTitles(state.unlinkedNotes[i + 1],
                                    allNoteTitles(state.unlinkedNotes)))
    [] OTHER -> BatchPayloads(notesWithTempIds(state.unlinkedNotes))

\* the phase-1 answers of another shape than an array of strings
MalformedReplies ==
  IF pc = "phase1"
  THEN {[content |-> Plain(m), finish_reason |-> Normal(variant)] :
          m \in MalformedTitles(variant)}
  ELSE {}

\* a network attempt is answered 2xx with a decodable body: the call returns
\* (what the body holds is drawn where it is read, in CallResolved)
AttemptSucceeds ==
  /\ gpc = "fetch"
  /\ gres' = [ok |-> TRUE, error |-> NoError]
  /\ gpc' = "resolved"
  /\ glog' = Append(glog, <<"ok", attempt>>)
  /\ answered' = Answered2xx
  /\ UNCHANGED <<attempt, lastError, appVars, runVars, viewVars>>

\* a network attempt fails: the catch block waits for a retry or throws
AttemptFails ==
  /\ gpc = "fetch"
  /\ \E o \in FailureOutcomes(variant) :
       LET error == Caught(variant, o)
           failed == Append(glog, <<"fail", attempt>>)
       IN /\ lastError' = error
          /\ answered' = o
          /\ IF WaitsBeforeRetry(variant, attempt, error)
             THEN /\ gpc' = "backoff"
                  /\ glog' = Append(failed, <<"delay", BackoffDelay(attempt)>>)
                  /\ gres' = gres
             ELSE /\ gpc' = "rejected"
                  /\ glog' = failed
                  /\ gres' = [ok |-> FALSE, reply |-> DefaultReply,
                              error |-> Rethrown(variant, error)]
  /\ UNCHANGED <<attempt, appVars, runVars, viewVars>>

\* the backoff delay is over: attempt++, then the next fetch or throw lastError
BackoffElapsed ==
  /\ gpc = "backoff"
  /\ attempt' = attempt + 1
  /\ IF LoopContinues(attempt + 1)
     THEN /\ gpc' = "fetch"
          /\ glog' = Append(glog, <<"attempt", attempt + 1>>)
          /\ gres' = gres
          /\ answered' = Pending
     ELSE /\ gpc' = "rejected"
          /\ glog' = glog
          /\ gres' = [ok |-> FALSE, error |-> lastError]
          /\ answered' = answered
  /\ UNCHANGED <<lastError, appVars, runVars, viewVars>>

\* the phase function resumes with the reply the gateway returns, decodes it,
\* and the orchestrator goes on with the value (or catches the decode failure)
CallResolved ==
  /\ gpc = "resolved"
  /\ \E reply \in RepliesOf(variant, ReplyValues) \cup MalformedReplies :
     LET parsed == safeParseJsonResponse(variant, Returned(variant, reply))
     IN Continue(
          IF ~parsed.ok
          THEN WithBadReply(reply,
                 Fail(variant, state, unlinkedNotes, i, finalNotes, parsed.error))
          ELSE WithReply(parsed.value,
                 CASE pc = "phase1" -> AfterTitles(variant, state, parsed.value)
                   [] pc = "phase2" ->
                        AfterBody(variant, state, unlinkedNotes, i, parsed.value)
                   [] pc = "phase3" /\ variant = "openrouter" ->
                        AfterSingle(state, unlinkedNotes, i, finalNotes, parsed.value)
                   [] OTHER -> AfterBatch(state, unlinkedNotes, i, parsed.value)))
  /\ UNCHANGED <<variant, pending, initialState, previous>>

\* the gateway threw: the run's catch block
CallRejected ==
  /\ gpc = "rejected"
  /\ Continue(Fail(variant, state, unlinkedNotes, i, finalNotes, gres.error))
  /\ UNCHANGED <<variant, pending, initialState, previous>>

\* await delay(1500) is over: the next iteration of the loop
DelayElapsed ==
  /\ pc \in {"delay2", "delay3"}
  /\ Continue(IF pc = "delay2" THEN Phase2Iter(variant, state, unlinkedNotes, i + 1, <<>>)
              ELSE Phase3Iter(state, unlinkedNotes, i + 1, finalNotes, <<>>))
  /\ UNCHANGED <<variant, pending, initialState, previous>>

\* let state = { ...initialState }: of the copy, the orchestrator reads and
\* writes status, inputText, titles, unlinkedNotes and finalNotes only
Local(initial) ==
  [f \in {"status", "inputText", "titles", "unlinkedNotes", "finalNotes"} |->
     initial[f]]

RunInFlight == pc \notin {"idle", "returned", "threw", "crashed"}

Last(s) == s[Len(s)]
CallsOf(events) == SelectSeq(events, LAMBDA ev : ev.e = "call")

\* Where a run that threw failed: the phase of the model call it awaited (or
\* phase 2, when it failed at the head of a phase-2 iteration with every call
\* answered) and the loop index.
NoFailure == [phase |-> 0, index |-> 0]
RepliesOfLog(events) == SelectSeq(events, LAMBDA ev : ev.e = "reply")
FailedAt ==
  [phase |-> IF Len(CallsOf(log)) > Len(RepliesOfLog(log))
             THEN Last(CallsOf(log)).phase ELSE 2,
   index |-> i]

\* processBookWithX(initial, onProgress) is called
StartRun(before, initial) ==
  /\ initialState' = Local(initial)
  /\ previous' = IF pc = "threw" THEN FailedAt ELSE NoFailure
  /\ LET k == Begin(variant, Local(initial))
     IN /\ pc' = k.pc
        /\ state' = k.state
        /\ unlinkedNotes' = k.unlinkedNotes
        /\ i' = k.i
        /\ finalNotes' = k.finalNotes
        /\ log' = k.events
        /\ arrays' = ArraysStep(ArraysAtCall(Local(initial)), "idle", k)
        /\ session' = MergeEvents(before, k.events)
        /\ store' = Saved(store, session')
        /\ SelectFirst(store, k)
        /\ IF k.pc \in {"phase1", "phase2", "phase3"} THEN StartCall ELSE NoCall
  /\ UNCHANGED <<variant, pending>>

RunStep ==
  \/ AttemptSucceeds
  \/ AttemptFails
  \/ BackoffElapsed
  \/ CallResolved
  \/ CallRejected
  \/ DelayElapsed

\* ------------------------------------------------------- the service alone
\* The orchestrator called with the caller's session as test.js calls it,
\* every update merged into that session as handleProgress does, and called
\* again, once a run has ended, with the session as it then stands.

Idle ==
  /\ initialState = Local(getInitialState)
  /\ pc = "idle"
  /\ state = Local(getInitialState)
  /\ unlinkedNotes = <<>>
  /\ i = 0
  /\ finalNotes = <<>>
  /\ log = <<>>
  /\ previous = NoFailure
  /\ arrays = NoArrays
  /\ attempt = 0
  /\ lastError = NoError
  /\ gpc = "none"
  /\ gres = NoResult
  /\ glog = <<>>
  /\ answered = Pending

\* useState(null), useState('viewer')
FreshView ==
  /\ selectedNoteId = Null
  /\ viewMode = "viewer"
  /\ clicked = NoClick

ServiceInit ==
  /\ variant \in Variants
  /\ FreshView
  /\ session = [getInitialState EXCEPT !.inputText = InputText]
  /\ store = <<>>
  /\ pending = <<>>
  /\ Idle

Invoke ==
  /\ ~RunInFlight
  /\ StartRun(session, session)

ServiceNext == Invoke \/ RunStep

ServiceSpec == ServiceInit /\ [][ServiceNext]_vars

\* The same, with what the event loop and the network see to: a pending
\* fetch is answered or fails, a timer that was set fires, and the code
\* awaiting a settled promise resumes.
LiveServiceSpec == ServiceSpec /\ WF_vars(RunStep)

\* ------------------------------------------------------------------ the App

\* the texts the user may have in the text area
Texts == {"", "book"}

RECURSIVE Trim(_)
\* String.prototype.trim
Trim(s) ==
  IF s = "" THEN s
  ELSE IF SubSeq(s, 1, 1) = " " THEN Trim(SubSeq(s, 2, Len(s)))
  ELSE IF SubSeq(s, Len(s), Len(s)) = " " THEN Trim(SubSeq(s, 1, Len(s) - 1))
  ELSE s

\* the page after its first mount: nothing was stored, the save effect has
\* written the initial session
Init ==
  /\ variant = "grok"
  /\ FreshView
  /\ session = getInitialState
  /\ store = <<getInitialState>>
  /\ pending = <<>>
  /\ Idle

\* A user event on the page: of a run that has ended nothing is left but what
\* it merged into the session; a run in flight goes on.
AfterRun ==
  IF RunInFlight THEN UNCHANGED <<runVars, gwVars>>
  ELSE /\ initialState' = Local(getInitialState)
       /\ pc' = "idle"
       /\ state' = Local(getInitialState)
       /\ unlinkedNotes' = <<>>
       /\ i' = 0
       /\ finalNotes' = <<>>
       /\ log' = <<>>
       /\ previous' = NoFailure
       /\ arrays' = NoArrays
       /\ NoCall

\* the text area's onChange; the text area is disabled while processing and
\* after an error
EditText ==
  /\ pending = <<>>
  /\ session.status \notin {"processing", "error"}
  /\ \E text \in Texts :
       /\ text # session.inputText
       /\ session' = [session EXCEPT !.inputText = text]
  /\ store' = Saved(store, session')
  /\ AfterRun
  /\ UNCHANGED <<variant, pending, viewVars>>

\* a runProcess that marks the session as processing and keeps its error
runProcessKeepingError(stateToProcess) ==
  StartRun(Merge(session, [status |-> "processing"]), stateToProcess)

\* a runProcess that calls the service without marking the session
runProcessUnmarked(stateToProcess) ==
  StartRun(session, stateToProcess)

\* runProcess: setSession(prev => ({ ...prev, status, error })), then the call
runProcess(stateToProcess) ==
  StartRun(Merge(session, [status |-> "processing", error |-> Null]), stateToProcess)

\* the Process Book button, shown unless the status is error and disabled
\* while processing or without text
handleStartProcessing ==
  /\ pending = <<>>
  /\ session.status # "error"
  /\ session.status # "processing"
  /\ Trim(session.inputText) # ""
  /\ runProcess([getInitialState EXCEPT !.inputText = session.inputText])

\* the Resume button, shown when the status is error
handleResumeProcessing ==
  /\ pending = <<>>
  /\ session.status = "error"
  /\ runProcess(session)

\* the Start New button (confirmed), shown unless processing or nothing to clear
\* (localStorage.removeItem, then the save effect of the reset session)
handleStartNew ==
  /\ pending = <<>>
  /\ session.status # "idle" \/ session.inputText # ""
  /\ session.status # "processing"
  /\ session' = getInitialState
  /\ store' = Saved(store, session')
  /\ selectedNoteId' = Null
  /\ clicked' = NoClick
  /\ AfterRun
  /\ UNCHANGED <<variant, pending, viewMode>>

\* The page is closed or reloaded and mounts again.  A run in flight is gone
\* with the page (the log keeps where it was cut), and so is what the page
\* held of a run that had ended.  The first render shows the initial session; the load
\* effect parses the stored session and sets it, and the save effect of that
\* first render writes the initial session over the stored one.
Reload ==
  /\ store # <<>>
  /\ session' = getInitialState
  /\ pending' = store
  /\ store' = Saved(store, session')
  /\ IF RunInFlight
     THEN /\ pc' = "crashed"
          /\ log' = Append(log, CrashEvent(pc, gpc = "resolved", 1))
          /\ NoCall
          /\ UNCHANGED <<initialState, state, unlinkedNotes, i, finalNotes, previous,
                         arrays>>
     ELSE IF pc = "crashed"
          THEN /\ log' = [log EXCEPT ![Len(log)].reloads = 2]
               /\ UNCHANGED <<initialState, pc, state, unlinkedNotes, i, finalNotes,
                              previous, arrays, gwVars>>
          ELSE AfterRun
  /\ selectedNoteId' = Null
  /\ viewMode' = "viewer"
  /\ clicked' = NoClick
  /\ UNCHANGED variant

\* the id the load effect selects: the first note of the parsed session
firstNoteId(parsed) ==
  LET notes == IF parsed.status = "completed" THEN parsed.finalNotes
               ELSE parsed.unlinkedNotes
  IN IF Len(notes) > 0
     THEN IF parsed.status = "completed" THEN parsed.finalNotes[1].id
          ELSE "note_temp_0"
     ELSE Null

\* the render with the session the load effect has set, and its save effect
MountCommit ==
  /\ pending # <<>>
  /\ session' = pending[1]
  /\ store' = Saved(store, session')
  /\ pending' = <<>>
  /\ selectedNoteId' = firstNoteId(pending[1])
  /\ UNCHANGED <<variant, runVars, gwVars, viewMode, clicked>>

Next ==
  \/ EditText
  \/ handleStartProcessing
  \/ handleResumeProcessing
  \/ handleStartNew
  \/ Reload
  \/ MountCommit
  \/ RunStep

Spec == Init /\ [][Next]_vars

\* --------------------------------------------------------------- the viewer
\* The note viewer of the App on a session it has loaded: the list of notes,
\* the two view tabs, and the cross-references rendered in the note shown.

UpperCase == "ABCDEFGHIJKLMNOPQRSTUVWXYZ"
LowerCase == "abcdefghijklmnopqrstuvwxyz"

\* a comparison of titles that tells upper case from lower case
keepCase(s) == s

RECURSIVE toLowerCase(_)
\* String.prototype.toLowerCase
toLowerCase(s) ==
  IF s = "" THEN ""
  ELSE LET c == SubSeq(s, 1, 1)
           at == {k \in 1..Len(UpperCase) : SubSeq(UpperCase, k, k) = c}
       IN (IF at = {} THEN c
           ELSE SubSeq(LowerCase, CHOOSE k \in at : TRUE, CHOOSE k \in at : TRUE))
            \o toLowerCase(SubSeq(s, 2, Len(s)))

Least(S) == CHOOSE k \in S : \A j \in S : k <= j

RECURSIVE parseContent(_)
\* NoteView.parseContent: the titles of the links [[...]] in the content, in
\* order (the leftmost opening brackets, up to the nearest closing ones)
parseContent(content) ==
  LET closes(a) == {b \in (a + 2)..(Len(content) - 1) : SubSeq(content, b, b + 1) = "]]"}
      opens == {a \in 1..(Len(content) - 1) :
                  SubSeq(content, a, a + 1) = "[[" /\ closes(a) # {}}
  IN IF opens = {} THEN <<>>
     ELSE LET a == Least(opens)
              b == Least(closes(a))
          IN <<SubSeq(content, a + 2, b - 1)>>
               \o parseContent(SubSeq(content, b + 2, Len(content)))

\* the notes the page lists: the final notes of a completed session, else
\* the unlinked notes under temporary ids
notesToDisplay(s) ==
  IF s.status = "completed" /\ Len(s.finalNotes) > 0 THEN s.finalNotes
  ELSE [k \in 1..Len(s.unlinkedNotes) |->
          [id |-> "note_temp_" \o ToString(k - 1)] @@ s.unlinkedNotes[k]]

\* notesToDisplay.find(note => note.id === selectedNoteId), as a list of
\* at most one note
selectedNote ==
  SelectSeq(notesToDisplay(session), LAMBDA note : note.id = selectedNoteId)

\* the titles the model may have given, in three spellings, and the titles
\* its cross-references name
ViewerTitles == {"Ab", "ab ", "C"}
LinkTargets == <<"Ab", " AB ", "c", OutsideTitle>>
ViewerTitleSeqs ==
  UNION {[1..n -> ViewerTitles] : n \in 1..MaxTitles}

RECURSIVE Links(_)
Links(targets) ==
  IF targets = <<>> THEN "" ELSE Link(Head(targets)) \o Links(Tail(targets))

\* A session as a run leaves it: completed, every final note linking to
\* every target; or failed in phase 3, with notes whose text the model wrote
\* with the links already in.
ViewerSessions ==
  UNION {
    LET plain == [k \in 1..Len(titles) |->
                    [title |-> titles[k], content |-> "c1", quotes |-> <<"q">>,
                     source |-> "ch1"]]
        linked == [k \in 1..Len(titles) |->
                     [plain[k] EXCEPT !.content = @ \o Links(LinkTargets)]]
    IN {[getInitialState EXCEPT !.status = "completed", !.inputText = InputText,
           !.titles = titles, !.unlinkedNotes = plain,
           !.finalNotes = FinalIds(linked)],
        [getInitialState EXCEPT !.status = "error", !.inputText = InputText,
           !.titles = titles, !.unlinkedNotes = linked,
           !.error = FetchFailedMessage]}
    : titles \in ViewerTitleSeqs}

\* the page after it has loaded a stored session
ViewerInit ==
  /\ variant = "grok"
  /\ session \in ViewerSessions
  /\ store = <<session>>
  /\ pending = <<>>
  /\ Idle
  /\ selectedNoteId = firstNoteId(session)
  /\ viewMode = "viewer"
  /\ clicked = NoClick

handleSelectNoteByTitle(title) ==
  /\ clicked' = [title |-> title, selectedNoteId |-> selectedNoteId,
                 viewMode |-> viewMode]
  /\ IF session.status # "completed"
     THEN UNCHANGED <<selectedNoteId, viewMode>>
     ELSE LET found == {k \in 1..Len(session.finalNotes) :
                          toLowerCase(Trim(session.finalNotes[k].title))
                            = toLowerCase(Trim(title))}
          IN IF found # {}
             THEN /\ selectedNoteId' = session.finalNotes[Least(found)].id
                  /\ viewMode' = "viewer"
             ELSE UNCHANGED <<selectedNoteId, viewMode>>
  /\ UNCHANGED <<appVars, runVars, gwVars>>

\* NetworkGraph: the nodes and links it computes from the notes it is given

Greatest(S) == CHOOSE k \in S : \A j \in S : j <= k

\* notes.map(note => ({ id: note.id, title: note.title }))
newNodes(notes) == [k \in 1..Len(notes) |-> [id |-> notes[k].id, title |-> notes[k].title]]

\* new Map(notes.map(note => [note.title.trim().toLowerCase(), note.id])): of
\* two entries with the same key the later one stays
titleToIdMap(notes) ==
  [key \in {toLowerCase(Trim(notes[k].title)) : k \in 1..Len(notes)} |->
     notes[Greatest({k \in 1..Len(notes) :
                       toLowerCase(Trim(notes[k].title)) = key})].id]

\* Map.prototype.get (undefined, here null, for a key the map does not have)
MapGet(map, key) == IF key \in DOMAIN map THEN map[key] ELSE Null

\* a link test that lets a note link to itself
keepsAnyTarget(note, targetId) == targetId # Null

\* if (targetId && targetId !== note.id)
keepsLink(note, targetId) == targetId # Null /\ targetId # note.id

\* the links one note contributes: one for every [[...]] of its content
\* whose title the map knows as another note's
linksOfNote(note, map) ==
  LET targets == parseContent(note.content)
      all == [n \in 1..Len(targets) |->
                [source |-> note.id,
                 target |-> MapGet(map, toLowerCase(Trim(targets[n])))]]
  IN SelectSeq(all, LAMBDA l : keepsLink(note, l.target))

RECURSIVE newLinksFrom(_, _)
\* notes.forEach(note => ...), from note k on
newLinksFrom(notes, k) ==
  IF k > Len(notes) THEN <<>>
  ELSE linksOfNote(notes[k], titleToIdMap(notes)) \o newLinksFrom(notes, k + 1)

newLinks(notes) == newLinksFrom(notes, 1)

\* whether the page shows the tabs and, under them, the note or the graph
TabsShown ==
  session.status # "processing" /\ Len(notesToDisplay(session)) > 0

\* a click on a link of the note shown in the note viewer
onLinkClick ==
  /\ TabsShown
  /\ viewMode = "viewer"
  /\ selectedNote # <<>>
  /\ \E title \in {parseContent(selectedNote[1].content)[n] :
                     n \in 1..Len(parseContent(selectedNote[1].content))} :
       handleSelectNoteByTitle(title)

\* a click on a note of the list, or on a node of the graph
onSelectNote ==
  /\ Len(notesToDisplay(session)) > 0
  /\ \E n \in 1..Len(notesToDisplay(session)) :
       /\ notesToDisplay(session)[n].id # selectedNoteId
       /\ selectedNoteId' = notesToDisplay(session)[n].id
  /\ clicked' = NoClick
  /\ UNCHANGED <<appVars, runVars, gwVars, viewMode>>

\* the Note Viewer tab
showViewer ==
  /\ TabsShown
  /\ viewMode # "viewer"
  /\ viewMode' = "viewer"
  /\ clicked' = NoClick
  /\ UNCHANGED <<appVars, runVars, gwVars, selectedNoteId>>

\* the Knowledge Graph tab, disabled unless the session is completed
showGraph ==
  /\ TabsShown
  /\ session.status = "completed"
  /\ viewMode # "graph"
  /\ viewMode' = "graph"
  /\ clicked' = NoClick
  /\ UNCHANGED <<appVars, runVars, gwVars, selectedNoteId>>

ViewerNext == onLinkClick \/ onSelectNote \/ showViewer \/ showGraph

ViewerSpec == ViewerInit /\ [][ViewerNext]_vars

\* -------------------------------------------------------------- properties

PhaseCalls(events, phase) ==
  SelectSeq(events, LAMBDA ev : ev.e = "call" /\ ev.phase = phase)
Replies(events) == SelectSeq(events, LAMBDA ev : ev.e = "reply")
\* the progress updates that carry titles, unlinkedNotes or finalNotes
DataUpdates(events) ==
  SelectSeq(events, LAMBDA ev :
    ev.e = "update" /\ DOMAIN ev.u \cap {"titles", "unlinkedNotes", "finalNotes"} # {})
IsPrefix(s, t) == Len(s) <= Len(t) /\ SubSeq(t, 1, Len(s)) = s

\* the ids the contract prescribes, written out
ExpectedId(index) ==
  "note_" \o (IF index < 10 THEN "00" ELSE IF index < 100 THEN "0" ELSE "")
    \o ToString(index)

\* the gateway's log, by kind of entry
GatewayEntries(kind) == SelectSeq(glog, LAMBDA en : en[1] = kind)
DelaysTaken ==
  [k \in 1..Len(GatewayEntries("delay")) |-> GatewayEntries("delay")[k][2]]
NumFails == Len(GatewayEntries("fail"))
NumAttempts == Len(GatewayEntries("attempt"))

\* the phase-2 calls a run owes for titles k..n-1
ExpectedPhase2Calls(titles, k) ==
  [j \in 1..(Count(titles) - k) |-> CallEvent(2, k + j - 1, titles[k + j])]

\* C1: Idempotent resume.  A run called with non-empty titles and k < n
\* unlinked notes issues phase-2 calls for titles k..n-1 only, in that order
\* (all n-k of them once it has returned, that is when every model call
\* succeeded), and the first k unlinked notes stay as they were, in the run
\* and in the session.
C1_IdempotentResume ==
  LET k == Len(initialState.unlinkedNotes)
      titles == initialState.titles
  IN (pc # "idle" /\ titles # <<>> /\ k < Count(titles)) =>
       /\ IsPrefix(PhaseCalls(log, 2), ExpectedPhase2Calls(titles, k))
       /\ pc = "returned" => PhaseCalls(log, 2) = ExpectedPhase2Calls(titles, k)
       /\ IsPrefix(initialState.unlinkedNotes, unlinkedNotes)
       /\ IsPrefix(initialState.unlinkedNotes, session.unlinkedNotes)

\* a run resumed with one of two notes recorded has returned, having asked
\* for the second note only
C1_Witness ==
  /\ pc = "returned"
  /\ Count(initialState.titles) = 2
  /\ Len(initialState.unlinkedNotes) = 1
  /\ PhaseCalls(log, 2) = <<CallEvent(2, 1, initialState.titles[2])>>
  /\ Len(session.unlinkedNotes) = 2

\* C2: If phase 2 fails at note i, the run ends with the session in status
\* error and its unlinkedNotes exactly the notes 0..i-1; the next run on
\* the session issues its first phase-2 call for titles[i].
C2_Phase2FailureCheckpoint ==
  /\ (pc = "threw" /\ FailedAt.phase = 2) =>
       /\ session.status = "error"
       /\ Len(session.unlinkedNotes) = FailedAt.index
       /\ \A j \in 1..Len(session.unlinkedNotes) :
            j <= Count(session.titles)
              /\ session.unlinkedNotes[j].title = session.titles[j]
  /\ (pc # "idle" /\ previous.phase = 2 /\ PhaseCalls(log, 2) # <<>>) =>
       /\ Head(PhaseCalls(log, 2)).index = previous.index
       /\ PhaseCalls(log, 1) = <<>>

\* C3: Once the session's titles are set, no run started by the App issues a
\* phase-1 call or changes them (until a confirmed start-new).
C3_TitlesSetOnce ==
  /\ pc = "phase1" => session.titles = <<>>
  /\ (RunInFlight /\ state.titles # <<>>) => session.titles = state.titles

\* C4: If phase 1 fails, the run ends with the session in status error and
\* the failure message recorded (the message the run throws with), titles
\* still empty, and no phase-2 or phase-3 call issued in the run.
C4_Phase1FailureHalts ==
  (pc = "threw" /\ FailedAt.phase = 1) =>
    /\ session.status = "error"
    /\ session.error \notin {Null, ""}
    /\ Last(log) = ThrowEvent(ThrownMessage(variant, session.error))
    /\ session.titles = <<>>
    /\ PhaseCalls(log, 2) = <<>>
    /\ PhaseCalls(log, 3) = <<>>
    /\ CallsOf(log) = <<CallEvent(1, 0, "")>>

\* a run has failed in phase 1 on a reply that did not decode
C4_Witness ==
  /\ pc = "threw"
  /\ FailedAt.phase = 1
  /\ session.status = "error"
  /\ session.error = "Invalid response format from API"

\* C5 (as stated): If phase 3 fails, the run ends with status error and the
\* session's finalNotes empty; the next run issues no phase-1 or phase-2
\* call and re-attempts phase 3 from its beginning.
C5_Phase3FailureResumes ==
  /\ (pc = "threw" /\ FailedAt.phase = 3) =>
       session.status = "error" /\ session.finalNotes = <<>>
  /\ (pc # "idle" /\ previous.phase = 3) =>
       /\ PhaseCalls(log, 1) = <<>>
       /\ PhaseCalls(log, 2) = <<>>
       /\ Head(CallsOf(log)).phase = 3
       /\ Head(CallsOf(log)).index = 0

\* C5 (amended): If phase 3 fails, the run ends with status error and the
\* session's finalNotes empty; when the session's titles are non-empty the
\* next run issues no phase-1 or phase-2 call and re-attempts phase 3 from
\* its beginning (per-note: from note 0); when phase 1 had returned no title
\* the next run begins with phase 1 again.
C5_Phase3FailureResumesWithTitles ==
  /\ (pc = "threw" /\ FailedAt.phase = 3) =>
       session.status = "error" /\ session.finalNotes = <<>>
  /\ (pc # "idle" /\ previous.phase = 3 /\ initialState.titles # <<>>) =>
       /\ PhaseCalls(log, 1) = <<>>
       /\ PhaseCalls(log, 2) = <<>>
       /\ Head(CallsOf(log)).phase = 3
       /\ Head(CallsOf(log)).index = 0
  /\ (pc # "idle" /\ previous.phase = 3 /\ initialState.titles = <<>>) =>
       Head(CallsOf(log)) = CallEvent(1, 0, "")

\* the per-note strategy failed at its second note, and the next run is
\* interlinking note 0 again
C5_Witness ==
  /\ variant = "openrouter"
  /\ previous = [phase |-> 3, index |-> 1]
  /\ pc = "phase3"
  /\ i = 0
  /\ session.finalNotes = <<>>

\* C6: Id determinism.  In every finalNotes sequence a run emits or returns,
\* the note at index i has the id note_ followed by i zero-padded to three
\* digits, whatever ids the model's reply held; so the ids are pairwise
\* distinct.
C6_IdDeterminism ==
  \A n \in 1..Len(log) :
    LET ev == log[n]
        notes == IF ev.e = "return" THEN ev.value
                 ELSE IF ev.e = "update" /\ "finalNotes" \in DOMAIN ev.u
                      THEN ev.u.finalNotes
                      ELSE <<>>
    IN /\ \A k \in 1..Len(notes) : notes[k].id = ExpectedId(k - 1)
       /\ \A a, b \in 1..Len(notes) : a # b => notes[a].id # notes[b].id

\* the batch reply gave both notes the same id of the model's own, and the
\* run returned them as note_000 and note_001
C6_Witness ==
  /\ pc = "returned"
  /\ variant = "gemini"
  /\ PhaseCalls(log, 3) # <<>>
  /\ Len(Last(Replies(log)).value) = 2
  /\ Last(Replies(log)).value[1].id = "n1"
  /\ Last(Replies(log)).value[2].id = "n1"
  /\ Last(log).value[1].id = "note_000"
  /\ Last(log).value[2].id = "note_001"

\* C7: A run from the idle empty session in which every call succeeds emits
\* its data updates in this order: the titles as the model gave them, then
\* one unlinkedNotes update per title, the j-th of length j and ending with
\* the note for title j, then finalNotes with status completed; and it
\* returns those final notes.
C7_ProgressOrder ==
  (pc = "returned"
     /\ initialState = Local([getInitialState EXCEPT !.inputText = InputText])) =>
    LET d == DataUpdates(log)
        r == Replies(log)
        titles == r[1].value
        n == Count(titles)
    IN /\ Len(d) = n + 2
       /\ d[1].u = [titles |-> titles]
       /\ \A j \in 1..n :
            /\ DOMAIN d[j + 1].u = {"unlinkedNotes"}
            /\ Len(d[j + 1].u.unlinkedNotes) = j
            /\ Last(d[j + 1].u.unlinkedNotes) = [title |-> titles[j]] @@ r[j + 1].value
            /\ j > 1 => IsPrefix(d[j].u.unlinkedNotes, d[j + 1].u.unlinkedNotes)
       /\ DOMAIN d[n + 2].u = {"finalNotes", "status", "stage"}
       /\ d[n + 2].u.status = "completed"
       /\ Last(log) = ReturnEvent(d[n + 2].u.finalNotes)

\* the two-title run of the test harness: titles, two notes, two final
\* notes, completed
C7_Witness ==
  /\ pc = "returned"
  /\ initialState = Local([getInitialState EXCEPT !.inputText = InputText])
  /\ session.titles = <<"A", "B">>
  /\ Len(DataUpdates(log)) = 4
  /\ Len(Last(log).value) = 2
  /\ session.status = "completed"

\* C8 (as stated): Three consecutive rate-limit failures are each followed
\* by a delayed retry, the delays being 2000, 4000 and 8000 ms, so that a
\* success of the fourth attempt is returned.
C8_ThreeDelayedRetries ==
  (NumFails = 3 /\ RateLimited(answered)) =>
    gpc = "backoff" /\ DelaysTaken = <<2000, 4000, 8000>>

\* C8 (amended): With the default three attempts, a rate-limit failure of
\* the first or second attempt is followed by a delayed retry, the delays
\* being 2000 then 4000 ms, and a success after k <= 2 failures is returned
\* after exactly k delayed retries; after a third failure no attempt is
\* made and the call fails.
C8_TwoDelayedRetries ==
  /\ (NumFails \in 1..2 /\ RateLimited(answered)) =>
       gpc = "backoff" /\ DelaysTaken = SubSeq(<<2000, 4000>>, 1, NumFails)
  /\ gpc = "resolved" =>
       /\ gres.ok
       /\ NumFails <= 2
       /\ NumAttempts = NumFails + 1
       /\ DelaysTaken = SubSeq(<<2000, 4000>>, 1, NumFails)
  /\ NumFails = 3 => gpc \in {"backoff", "rejected"}
  /\ gpc = "rejected" => ~gres.ok

\* two failures, waits of 2000 and 4000 ms, and the third attempt succeeded
C8_Witness ==
  /\ gpc = "resolved"
  /\ NumFails = 2
  /\ DelaysTaken = <<2000, 4000>>
  /\ glog[Len(glog)] = <<"ok", 2>>

\* C9: An attempt that fails with anything but a rate-limit response (a
\* non-2xx status other than 429, a transport error, an undecodable body)
\* ends the call at once: no backoff delay and no further attempt.
C9_NoRetryUnlessRateLimited ==
  (answered.kind \in {"http", "sdk", "transport", "badbody"} /\ ~RateLimited(answered)) =>
    /\ gpc = "rejected"
    /\ Last(glog)[1] = "fail"
    /\ (NumFails = 1 => NumAttempts = 1 /\ DelaysTaken = <<>>)

\* C10: One gateway call makes at most three attempts, numbered in order,
\* and attempt a+1 starts only after attempt a has failed and its backoff
\* delay has been taken; the attempt in flight is the last one started.
C10_AttemptsBoundedSerialized ==
  /\ NumAttempts <= 3
  /\ \A k \in 1..NumAttempts : GatewayEntries("attempt")[k][2] = k - 1
  /\ \A n \in 1..Len(glog) :
       (glog[n][1] = "attempt" /\ glog[n][2] > 0) =>
         /\ n > 3
         /\ glog[n - 1][1] = "delay"
         /\ glog[n - 2] = <<"fail", glog[n][2] - 1>>
         /\ glog[n - 3] = <<"attempt", glog[n][2] - 1>>
  /\ gpc = "fetch" => Last(glog) = <<"attempt", attempt>>
  /\ gpc = "backoff" => Last(glog) = <<"delay", BackoffDelay(attempt)>>

\* the third attempt of a call is in flight after two failures and waits
C10_Witness ==
  /\ gpc = "fetch"
  /\ attempt = 2
  /\ NumAttempts = 3
  /\ NumFails = 2

\* the finish reasons of a reply cut off by the token limit and of a reply
\* blocked by the content filter
Truncated(v) == IF v = "gemini" THEN "MAX_TOKENS" ELSE "length"
Filtered(v) == IF v = "gemini" THEN "SAFETY" ELSE "content_filter"

\* the message a run records for a 2xx reply with empty content
EmptyReplyMessage(v, fr) ==
  descriptiveError(v,
    safeParseJsonResponse(v, Returned(v, [content |-> EmptyText,
                                          finish_reason |-> fr])).error)

BadReplies(events) == SelectSeq(events, LAMBDA ev : ev.e = "badreply")

\* C11: Empty-response classification.  A run that fails on a 2xx reply with
\* empty content records the message of that reply's finish reason, and the
\* messages for truncated-by-length, content-filtered and any other finish
\* reason are pairwise distinct, in every service.
C11_EmptyReplyClassified ==
  (pc = "threw" /\ BadReplies(log) # <<>>
     /\ Last(BadReplies(log)).reply.content = EmptyText) =>
    /\ session.error = EmptyReplyMessage(variant, Last(BadReplies(log)).reply.finish_reason)
    /\ EmptyReplyMessage(variant, Truncated(variant))
         # EmptyReplyMessage(variant, Filtered(variant))
    /\ EmptyReplyMessage(variant, Truncated(variant))
         # EmptyReplyMessage(variant, Normal(variant))
    /\ EmptyReplyMessage(variant, Filtered(variant))
         # EmptyReplyMessage(variant, Normal(variant))

Updates(events) == SelectSeq(events, LAMBDA ev : ev.e = "update")
ErrorUpdates(events) ==
  SelectSeq(Updates(events),
            LAMBDA ev : "status" \in DOMAIN ev.u /\ ev.u.status = "error")

\* C12: Single error report per failed run.  A run that met a failure (a
\* rejected call or an undecodable reply) ends by throwing; its log then ends
\* with one update of status error carrying a non-empty message, which is the
\* only error update and the last update of the run, followed by the throw.
\* A run that returns normally met no failure and emitted no error update.
C12_FailureCaughtOnce ==
  /\ (BadReplies(log) # <<>> /\ pc # "crashed") => pc = "threw"
  /\ pc = "threw" =>
       /\ Len(log) >= 2
       /\ Last(log).e = "throw"
       /\ log[Len(log) - 1] = Last(Updates(log))
       /\ DOMAIN Last(Updates(log)).u = {"status", "error"}
       /\ Last(Updates(log)).u.status = "error"
       /\ Last(Updates(log)).u.error \notin {Null, ""}
       /\ Len(Last(Updates(log)).u.error) > 0
       /\ Len(ErrorUpdates(log)) = 1
       /\ Last(log) = ThrowEvent(ThrownMessage(variant, Last(Updates(log)).u.error))
  /\ pc = "returned" =>
       /\ Last(log).e = "return"
       /\ ErrorUpdates(log) = <<>>
       /\ BadReplies(log) = <<>>
       /\ Len(Replies(log)) = Len(CallsOf(log))

C12_Witness ==
  /\ pc = "threw"
  /\ variant = "openrouter"
  /\ FailedAt.phase = 3
  /\ Len(ErrorUpdates(log)) = 1
  /\ session.status = "error"
  /\ session.error = Last(Updates(log)).u.error

CompletionUpdates(events) ==
  SelectSeq(Updates(events),
            LAMBDA ev : "status" \in DOMAIN ev.u /\ ev.u.status = "completed")

C14_UnlinkedOnlyGrows ==
  /\ [](Len(session.unlinkedNotes) <= Count(session.titles))
  /\ [][\/ IsPrefix(session.unlinkedNotes, session'.unlinkedNotes)
        \/ session' = getInitialState]_vars

\* C15: Phase ordering.  In every reachable state of the App, a session with
\* final notes has one unlinked note for every title.
C15_FinalNotesAfterAllNotes ==
  session.finalNotes # <<>> => Len(session.unlinkedNotes) = Count(session.titles)

FinalNotesUpdates(events) ==
  SelectSeq(Updates(events), LAMBDA ev : "finalNotes" \in DOMAIN ev.u)

\* C16: Phase 3 at most once.  A run called on a session whose finalNotes is
\* not empty issues no phase-3 call and emits no finalNotes update.
C16_Phase3OnlyWithoutFinalNotes ==
  (pc # "idle" /\ initialState.finalNotes # <<>>) =>
    /\ PhaseCalls(log, 3) = <<>>
    /\ FinalNotesUpdates(log) = <<>>

HoldsProgress(s) == s.titles # <<>> \/ s.unlinkedNotes # <<>> \/ s.finalNotes # <<>>

\* C17: Input immutability.  While the session of the App holds titles or
\* notes, no step changes its inputText, except a step to the initial session
\* (Start New, the first render after a reload).
C17_InputTextFrozen ==
  [][HoldsProgress(session) =>
       \/ session'.inputText = session.inputText
       \/ session' = getInitialState]_vars

\* the session the page shows once the stored one is loaded
Reloaded == IF pending # <<>> THEN pending[1] ELSE session

\* C18: Checkpoint granularity.  When the page is reloaded once with a run of
\* the App suspended in phase 2, the reloaded session has every note the run
\* had pushed, in order: of the notes whose phase-2 call had completed, only
\* the one whose reply had arrived and was not yet pushed can be missing.
C18_CheckpointPerNote ==
  (pc = "crashed" /\ Last(log).at \in {"phase2", "delay2"}
     /\ Last(log).reloads = 1) =>
    /\ IsPrefix(unlinkedNotes, Reloaded.unlinkedNotes)
    /\ Len(Reloaded.unlinkedNotes) + 1
         >= Len(unlinkedNotes) + (IF Last(log).resolved THEN 1 ELSE 0)

C18_Witness ==
  /\ pc = "crashed"
  /\ Last(log).at = "phase2"
  /\ Last(log).resolved
  /\ Last(log).reloads = 1
  /\ pending = <<>>
  /\ Count(session.titles) = 2
  /\ Len(unlinkedNotes) = 1
  /\ session.unlinkedNotes = unlinkedNotes
  /\ session.status = "processing"

\* the conditions under which the page offers the two buttons that start a run
ProcessBookEnabled ==
  /\ session.status # "error"
  /\ session.status # "processing"
  /\ Trim(session.inputText) # ""
ResumeShown == session.status = "error"

\* C19: Single-run exclusion.  While a run of the App has not ended, the
\* session's status is processing, so Process Book is disabled and Resume is
\* not shown: no second run can be started.
C19_SingleRun ==
  RunInFlight =>
    /\ session.status = "processing"
    /\ ~ProcessBookEnabled
    /\ ~ResumeShown
    /\ ~ENABLED handleStartProcessing
    /\ ~ENABLED handleResumeProcessing

C19_Witness ==
  /\ RunInFlight
  /\ pc = "phase2"
  /\ previous.phase = 2
  /\ session.status = "processing"
  /\ session.error = Null

\* the stored session s keeps less recorded progress than the stored session t
Fewer(s, t) ==
  \/ Count(s.titles) < Count(t.titles)
  \/ Len(s.unlinkedNotes) < Len(t.unlinkedNotes)
  \/ Len(s.finalNotes) < Len(t.finalNotes)

\* C20: Explicit discard only.  No step of the App other than a confirmed
\* Start New leaves the store with fewer recorded titles, unlinked notes or
\* final notes than it held before the step.
C20_DiscardOnlyByStartNew ==
  [][(store # <<>> /\ store' # <<>> /\ Fewer(store'[1], store[1])) =>
       (pending = <<>> /\ pending' = <<>> /\ session' = getInitialState
          /\ session.status # "processing")]_vars

\* the titles a reply may name in a cross-reference
LinkableTitles == {TitleAt(k) : k \in 1..Len(Letters)} \cup {OutsideTitle}
LinksTo(content, title) == Includes(content, "[[" \o title \o "]]")

\* C21: Link target membership.  Every cross-reference in the content of a
\* final note of the session names the title of a note of the session.
C21_LinksWithinTargets ==
  \A k \in 1..Len(session.finalNotes) :
    \A title \in LinkableTitles :
      LinksTo(session.finalNotes[k].content, title) =>
        \E j \in 1..Len(session.unlinkedNotes) :
          session.unlinkedNotes[j].title = title

\* the decoded value is an array of strings
ArrayOfStrings(x) ==
  IsArray(x) /\ \A k \in 1..Len(x) : HasSubstring(x[k])

\* C22: Shape validation at the boundary.  A run whose phase-1 reply decodes
\* to a value that is no array of strings ends in status error; the value is
\* not recorded as the session's titles and the run does not complete.
C22_Phase1ShapeChecked ==
  (pc # "idle" /\ PhaseCalls(log, 1) # <<>> /\ Replies(log) # <<>>
     /\ ~ArrayOfStrings(Replies(log)[1].value)) =>
    /\ pc = "threw"
    /\ session.status = "error"
    /\ session.titles # Replies(log)[1].value
    /\ CompletionUpdates(log) = <<>>

\* the titles of the viewer, trimmed and in lower case, written out
Folded(title) ==
  CASE title \in {"Ab", "ab ", " AB "} -> "ab"
    [] title \in {"C", "c"} -> "c"
    [] OTHER -> "z"

\* C23: Cross-reference resolution.  After a click on [[T]] in a completed
\* session the note shown is one whose title equals T once both are trimmed
\* and in lower case, in the note viewer; when no note has such a title, or
\* the session is not completed, the selection and the view mode are what
\* they were before the click.
C23_LinkResolution ==
  clicked # NoClick =>
    LET matches == {k \in 1..Len(session.finalNotes) :
                      Folded(session.finalNotes[k].title) = Folded(clicked.title)}
    IN IF session.status = "completed" /\ matches # {}
       THEN /\ selectedNoteId \in {session.finalNotes[k].id : k \in matches}
            /\ viewMode = "viewer"
       ELSE /\ selectedNoteId = clicked.selectedNoteId
            /\ viewMode = clicked.viewMode

C23_Witness ==
  /\ session.status = "completed"
  /\ Len(session.finalNotes) = 2
  /\ session.finalNotes[1].title = "C"
  /\ session.finalNotes[2].title = "ab "
  /\ clicked.title = " AB "
  /\ clicked.selectedNoteId = "note_000"
  /\ selectedNoteId = "note_001"

\* the calls of a run stay within one phase-1 call, one phase-2 call for
\* every title and one phase-3 call (batch) or one for every title (per note)
CallsWithinBounds ==
  pc # "idle" =>
    /\ Len(PhaseCalls(log, 1)) <= 1
    /\ Len(PhaseCalls(log, 2)) <= Count(session.titles)
    /\ Len(PhaseCalls(log, 3)) <=
         IF variant = "openrouter" THEN Count(session.titles) ELSE 1

ThrowsAfterError ==
  pc = "threw" =>
    /\ Last(log).e = "throw"
    /\ ErrorUpdates(log) # <<>>
    /\ session.status = "error"

\* while a run is in flight there is a step for it to take
NeverStuck == RunInFlight => ENABLED RunStep

\* the run was called on a session already completed, with final notes
CalledOnCompleted ==
  initialState.status = "completed" /\ initialState.finalNotes # <<>>

\* C24 as stated: every run ends, by returning the final notes after it has
\* emitted status completed or by throwing after it has emitted status
\* error, and its calls stay within the bounds.
C24_RunTerminates ==
  /\ [](/\ CallsWithinBounds
        /\ ThrowsAfterError
        /\ NeverStuck
        /\ pc = "returned" =>
             /\ Last(log) = ReturnEvent(session.finalNotes)
             /\ CompletionUpdates(log) # <<>>
             /\ session.status = "completed")
  /\ (RunInFlight ~> pc \in {"returned", "threw"})

\* C24: Termination and call budget.  Every run ends, by returning the
\* session's final notes or by throwing after it has emitted status error.
\* A run that returns has emitted status completed just before, unless it was
\* called on a session already completed with final notes, which it returns
\* without a call and without an update.  The calls stay within the bounds.
C24_RunTerminatesOrSkips ==
  /\ [](/\ CallsWithinBounds
        /\ ThrowsAfterError
        /\ NeverStuck
        /\ pc = "returned" =>
             /\ Last(log) = ReturnEvent(session.finalNotes)
             /\ session.status = "completed"
             /\ IF CalledOnCompleted
                THEN log = <<ReturnEvent(initialState.finalNotes)>>
                ELSE /\ Len(log) >= 2
                     /\ log[Len(log) - 1] = Last(CompletionUpdates(log))
                     /\ Len(CompletionUpdates(log)) = 1)
  /\ (RunInFlight ~> pc \in {"returned", "threw"})

C24_Witness ==
  /\ pc = "returned"
  /\ variant = "openrouter"
  /\ Len(PhaseCalls(log, 1)) = 1
  /\ Len(PhaseCalls(log, 2)) = 2
  /\ Len(PhaseCalls(log, 3)) = 2
  /\ Len(CompletionUpdates(log)) = 1

\* the waits the orchestrator has taken between two positions of the log
DelaysBetween(m, n) ==
  SelectSeq(SubSeq(log, m + 1, n - 1), LAMBDA ev : ev.e = "delay")
IsPhaseCall(n, phase) == log[n].e = "call" /\ log[n].phase = phase
\* the position of the first call after position m, or one past the log's end
NextCall(m) ==
  Least({n \in (m + 1)..Len(log) : log[n].e = "call"} \cup {Len(log) + 1})

\* C25: Within one run, between two consecutive phase-2 calls the
\* orchestrator waits exactly once, for 1500 ms, and after the phase-2 call
\* for the last title it does not wait before what comes next (the first
\* phase-3 call, or the end of the run).
C25_InterCallDelay ==
  \A m \in 1..Len(log) :
    IsPhaseCall(m, 2) =>
      /\ (NextCall(m) <= Len(log) /\ IsPhaseCall(NextCall(m), 2)) =>
           /\ DelaysBetween(m, NextCall(m)) = <<DelayEvent(1500)>>
           /\ log[NextCall(m)].index = log[m].index + 1
      /\ (NextCall(m) <= Len(log) /\ ~IsPhaseCall(NextCall(m), 2)) =>
           DelaysBetween(m, NextCall(m)) = <<>>
      /\ log[m].index = Count(session.titles) - 1 =>
           DelaysBetween(m, NextCall(m)) = <<>>
      /\ (log[m].index < Count(session.titles) - 1 /\ NextCall(m) > Len(log)) =>
           \/ pc \in {"phase2", "threw"} /\ DelaysBetween(m, NextCall(m)) = <<>>
           \/ pc = "delay2" /\ DelaysBetween(m, NextCall(m)) = <<DelayEvent(1500)>>

\* a run has made the phase-2 calls for two titles, one wait between them,
\* and has gone on to phase 3 without another wait
C25_Witness ==
  /\ Len(PhaseCalls(log, 2)) = 2
  /\ Len(PhaseCalls(log, 3)) >= 1
  /\ Len(SelectSeq(log, LAMBDA ev : ev = DelayEvent(1500))) = 1

\* C26: Every wait a gateway call takes follows a failed attempt a and
\* lasts 2000 * 2^a ms: the waits of one call are, in order, 2000, 4000 and
\* 8000 ms, each the double of the one before.
C26_BackoffDoubles ==
  /\ \A n \in 1..Len(glog) :
       glog[n][1] = "delay" =>
         /\ n > 1
         /\ glog[n - 1][1] = "fail"
         /\ glog[n - 1][2] \in 0..2
         /\ glog[n][2] = <<2000, 4000, 8000>>[glog[n - 1][2] + 1]
  /\ Len(DelaysTaken) <= 3
  /\ DelaysTaken = SubSeq(<<2000, 4000, 8000>>, 1, Len(DelaysTaken))
  /\ \A k \in 2..Len(DelaysTaken) : DelaysTaken[k] = 2 * DelaysTaken[k - 1]

\* one call has been rate-limited three times and has waited three times
C26_Witness ==
  /\ DelaysTaken = <<2000, 4000, 8000>>
  /\ NumFails = 3
  /\ RateLimited(answered)

\* what the updates before position n of the log have made of field f
FieldAt(n, f) ==
  MergeEvents(initialState, SubSeq(log, 1, n - 1))[f]
HasUpdate(m, n, f) ==
  \E r \in m..n : log[r].e = "update" /\ f \in DOMAIN log[r].u

\* C27: Within one run a model call starts only when the call before it
\* has been answered, and the phases follow each other: the calls of the log
\* are in phase order; a phase-2 call follows the titles update of the run's
\* phase 1 (if it had one) and is for a title of the list; the phase-2 call
\* for title j+1 follows the unlinkedNotes update that added note j; and at
\* every phase-3 call the notes reported so far are one per title, in order.
C27_OneCallPhasesOrdered ==
  /\ gpc # "none" <=> pc \in {"phase1", "phase2", "phase3"}
  /\ gpc # "none" =>
       /\ Len(CallsOf(log)) = Len(RepliesOfLog(log)) + 1
       /\ Last(log).e = "call"
  /\ \A m, n \in 1..Len(log) :
       (m < n /\ log[m].e = "call" /\ log[n].e = "call") =>
         /\ log[m].phase <= log[n].phase
         /\ \E r \in (m + 1)..(n - 1) : log[r].e = "reply"
  /\ \A n \in 1..Len(log) :
       IsPhaseCall(n, 2) =>
         /\ PhaseCalls(log, 1) # <<>> => HasUpdate(1, n - 1, "titles")
         /\ log[n].index < Count(FieldAt(n, "titles"))
         /\ log[n].title = FieldAt(n, "titles")[log[n].index + 1]
         /\ Len(FieldAt(n, "unlinkedNotes")) = log[n].index
         /\ log[n].index > Len(initialState.unlinkedNotes) =>
              \E r \in 1..(n - 1) :
                /\ log[r].e = "update"
                /\ "unlinkedNotes" \in DOMAIN log[r].u
                /\ Len(log[r].u.unlinkedNotes) = log[n].index
  /\ \A n \in 1..Len(log) :
       IsPhaseCall(n, 3) =>
         /\ Len(FieldAt(n, "unlinkedNotes")) = Count(FieldAt(n, "titles"))
         /\ \A k \in 1..Len(FieldAt(n, "unlinkedNotes")) :
              FieldAt(n, "unlinkedNotes")[k].title = FieldAt(n, "titles")[k]

\* a fresh run has gone through the three phases with two titles and is
\* waiting for the answer of a phase-3 call
C27_Witness ==
  /\ pc = "phase3"
  /\ gpc = "fetch"
  /\ Len(PhaseCalls(log, 1)) = 1
  /\ Len(PhaseCalls(log, 2)) = 2
  /\ Last(log).e = "call"

\* the condition under which the page shows the Start New button
StartNewShown ==
  /\ session.status # "idle" \/ session.inputText # ""
  /\ session.status # "processing"

\* C28: Whenever the page is mounted with no run in flight and a session
\* that is begun (not the empty initial one) and not completed, one of
\* Process Book, Resume and Start New can be pressed; this includes the page
\* that has reloaded a stored session whose status is processing.
C28_NeverStuck ==
  (/\ ~RunInFlight
   /\ pending = <<>>
   /\ session.status # "completed"
   /\ session.status # "idle" \/ session.inputText # "") =>
    /\ ProcessBookEnabled \/ ResumeShown \/ StartNewShown
    /\ \/ ENABLED handleStartProcessing
       \/ ENABLED handleResumeProcessing
       \/ ENABLED handleStartNew

\* C29: In every state of the App each unlinked note of the session
\* belongs to the title at its position: unlinkedNotes[k].title = titles[k]
\* for every note recorded.
C29_NotesAlignedWithTitles ==
  \A k \in 1..Len(session.unlinkedNotes) :
    /\ k <= Count(session.titles)
    /\ session.unlinkedNotes[k].title = session.titles[k]

\* C30: Whenever the session is completed its final notes are the unlinked
\* notes, one for one and in order: as many final notes as unlinked notes and
\* as titles, and final note k has the title, quotes and source of unlinked
\* note k.
C30_FinalNotesMatchUnlinked ==
  session.status = "completed" =>
    /\ Len(session.finalNotes) = Len(session.unlinkedNotes)
    /\ Len(session.unlinkedNotes) = Count(session.titles)
    /\ \A k \in 1..Len(session.finalNotes) :
         /\ k <= Len(session.unlinkedNotes)
         /\ session.finalNotes[k].title = session.unlinkedNotes[k].title
         /\ session.finalNotes[k].quotes = session.unlinkedNotes[k].quotes
         /\ session.finalNotes[k].source = session.unlinkedNotes[k].source

\* C31: While a run of an orchestrator is in flight, the session its
\* progress updates are merged into (starting from the session it was
\* called with) has status processing; this includes a resumed run that
\* skips phase 1.
C31_ProcessingWhileInFlight ==
  RunInFlight => session.status = "processing"

\* C32: A gateway call whose third attempt is rate-limited like the two
\* before it fails at once: the failure of the last attempt is the last
\* thing the call does, and the call has waited twice in all.
C32_NoDelayAfterLastAttempt ==
  (NumFails = 3 /\ NumAttempts = 3 /\ RateLimited(answered)) =>
    /\ gpc = "rejected"
    /\ Last(glog) = <<"fail", 2>>
    /\ Len(DelaysTaken) = 2

\* C33: When a gateway call has failed three times on rate limiting and
\* throws, the run's next step records status error with an error text
\* taken from the provider's failure (it names the status 429 or repeats the
\* provider's message), not the generic text.
C33_ExhaustionErrorDerived ==
  [][(gpc = "rejected" /\ NumFails = 3 /\ RateLimited(answered)) =>
       /\ session'.status = "error"
       /\ session'.error # "An unknown error occurred while processing the book."
       /\ \/ Includes(session'.error, ToString(answered.status))
          \/ Includes(session'.error, answered.text)
          \/ Includes(session'.error, "quota")]_vars

\* C34: In a completed session the note viewer and the knowledge graph
\* resolve a cross-reference to the same note: after a click on [[T]] the
\* note selected is the one the graph's title-to-id map gives for T, and
\* when the map has no entry for T the click selects nothing.
C34_ViewerAgreesWithGraph ==
  (clicked # NoClick /\ session.status = "completed") =>
    LET targetId == MapGet(titleToIdMap(session.finalNotes),
                           toLowerCase(Trim(clicked.title)))
    IN IF targetId = Null
       THEN selectedNoteId = clicked.selectedNoteId
       ELSE selectedNoteId = targetId

\* the graph the page draws, when it draws one
GraphShown == viewMode = "graph" /\ session.status = "completed"
NoteIds(notes) == {notes[k].id : k \in 1..Len(notes)}
\* every link joins two different notes of the set
LinksJoinNotes(notes) ==
  \A n \in 1..Len(newLinks(notes)) :
    /\ newLinks(notes)[n].source \in NoteIds(notes)
    /\ newLinks(notes)[n].target \in NoteIds(notes)
    /\ newLinks(notes)[n].target # newLinks(notes)[n].source
\* the links that leave note k
LinksFrom(notes, k) ==
  SelectSeq(newLinks(notes), LAMBDA l : l.source = notes[k].id)
\* the notes whose title, trimmed and in lower case, is that of the reference
Named(notes, target) ==
  {j \in 1..Len(notes) : Folded(notes[j].title) = Folded(target)}
\* the references of note k, by position in its content
References(notes, k) ==
  {n \in 1..Len(parseContent(notes[k].content)) : TRUE}
ReferenceAt(notes, k, n) == parseContent(notes[k].content)[n]

\* C35 (as stated): Every link of the graph goes from a note of the set to
\* another note of the set, and a note has exactly one link for each of its
\* references that names some note and does not name the note itself: a
\* reference to its own title and a dangling reference yield no link.
C35_EdgesJoinDistinctNotes ==
  GraphShown =>
    /\ LinksJoinNotes(session.finalNotes)
    /\ \A k \in 1..Len(session.finalNotes) :
         Len(LinksFrom(session.finalNotes, k)) =
           Cardinality({n \in References(session.finalNotes, k) :
             /\ Named(session.finalNotes, ReferenceAt(session.finalNotes, k, n)) # {}
             /\ k \notin Named(session.finalNotes,
                               ReferenceAt(session.finalNotes, k, n))})

\* C35 (amended): Every link of the graph goes from a note of the set to
\* another note of the set, and a note has exactly one link for each of its
\* references that names some note, unless the last note so named is the note
\* itself: a dangling reference yields no link, and a reference to the
\* note's own title yields none unless a later note has the same title
\* after trimming and lower-casing (the link then goes to the last such note).
C35_EdgesJoinDistinctNotesOrTwins ==
  GraphShown =>
    /\ LinksJoinNotes(session.finalNotes)
    /\ \A k \in 1..Len(session.finalNotes) :
         /\ Len(LinksFrom(session.finalNotes, k)) =
              Cardinality({n \in References(session.finalNotes, k) :
                /\ Named(session.finalNotes, ReferenceAt(session.finalNotes, k, n)) # {}
                /\ k # Greatest(Named(session.finalNotes,
                                      ReferenceAt(session.finalNotes, k, n)))})
         /\ \A n \in 1..Len(LinksFrom(session.finalNotes, k)) :
              \E r \in References(session.finalNotes, k) :
                LET named == Named(session.finalNotes,
                                   ReferenceAt(session.finalNotes, k, r))
                IN /\ named # {}
                   /\ LinksFrom(session.finalNotes, k)[n].target
                        = session.finalNotes[Greatest(named)].id

\* the graph of two notes "Ab" and "C" that each refer to both titles and to
\* a title no note has: one link from the first to the second, two back
C35_Witness ==
  /\ GraphShown
  /\ Len(session.finalNotes) = 2
  /\ session.finalNotes[1].title = "Ab"
  /\ session.finalNotes[2].title = "C"
  /\ newLinks(session.finalNotes) =
       <<[source |-> "note_000", target |-> "note_001"],
         [source |-> "note_001", target |-> "note_000"],
         [source |-> "note_001", target |-> "note_000"]>>

\* the positions of the titles other than own, and the n-th of them
OtherPositions(titles, own) == {k \in 1..Len(titles) : titles[k] # own}
NthOf(P, n) == CHOOSE k \in P : Cardinality({j \in P : j <= k}) = n

\* C36: In the per-note strategy the list of link targets sent with the
\* phase-3 call for note i is the list of all the notes' titles without the
\* occurrences of note i's own title, in the same order; the note's own
\* title is never among its targets.
C36_TargetsExcludeOwnTitle ==
  \A n \in 1..Len(log) :
    (variant = "openrouter" /\ IsPhaseCall(n, 3)) =>
      LET titles == [k \in 1..Len(state.unlinkedNotes) |->
                       state.unlinkedNotes[k].title]
          own == state.unlinkedNotes[log[n].index + 1].title
          P == OtherPositions(titles, own)
      IN /\ log[n].title = own
         /\ titles = SubSeq(session.titles, 1, Len(titles))
         /\ Len(log[n].targets) = Cardinality(P)
         /\ \A m \in 1..Len(log[n].targets) :
              /\ log[n].targets[m] = titles[NthOf(P, m)]
              /\ log[n].targets[m] # own

\* the phase-3 call for the second of two notes "A" and "B" has been made
\* with the one target "A"
C36_Witness ==
  /\ variant = "openrouter"
  /\ pc = "phase3"
  /\ Last(log).e = "call"
  /\ Last(log).index = 1
  /\ Last(log).title = "B"
  /\ Last(log).targets = <<"A">>

\* the reply text is a JSON payload between an opening and a closing fence
IsFenced(text) ==
  /\ Len(text) = 3
  /\ text[1] = FenceOpen
  /\ text[2].t = "json"
  /\ text[3] = FenceClose
Decoded(v, text) ==
  safeParseJsonResponse(v, Returned(v, [content |-> text, finish_reason |-> Normal(v)]))

\* C37: In each service, a reply that is a payload wrapped in a code fence
\* decodes to the value the payload alone decodes to: for every value the
\* model may answer the call in flight with, the fenced text and the plain
\* text decode alike, and no run records a fenced payload as undecodable.
C37_FenceInsensitive ==
  /\ gpc = "resolved" =>
       \A value \in ReplyValues :
         Decoded(variant, Plain(value)).ok =>
           Decoded(variant, Fenced(value)) = Decoded(variant, Plain(value))
  /\ \A n \in 1..Len(log) :
       log[n].e = "badreply" => ~IsFenced(log[n].reply.content)

\* the unlinkedNotes arrays the run's updates carried, in order
EmittedNotes ==
  LET d == SelectSeq(log, LAMBDA ev :
             ev.e = "update" /\ "unlinkedNotes" \in DOMAIN ev.u)
  IN [n \in 1..Len(d) |-> d[n].u.unlinkedNotes]

\* no array the run did not make itself, and none it has handed out, has
\* changed since
ArraysFrame ==
  arrays # NoArrays =>
    /\ arrays.cells[arrays.passed] = initialState.unlinkedNotes
    /\ arrays.local # arrays.passed
    /\ Len(arrays.emitted) = Len(EmittedNotes)
    /\ \A n \in 1..Len(arrays.emitted) :
         /\ arrays.cells[arrays.emitted[n]] = EmittedNotes[n]
         /\ arrays.emitted[n] \notin {arrays.passed, arrays.local}
    /\ arrays.local # 0 => arrays.cells[arrays.local] = unlinkedNotes

\* a step taken while a gateway call is retrying changes neither the
\* session nor the log, the run's argument or an array
GatewayFrame ==
  gpc \in {"fetch", "backoff"} =>
    (session' = session /\ log' = log /\ initialState' = initialState
       /\ arrays' = arrays)
\* a step of a run leaves the run's argument as it was passed
ArgumentFrame ==
  (RunInFlight /\ pc' # "idle" /\ log' # <<>> /\ IsPrefix(log, log')) =>
    initialState' = initialState

\* C38: While a gateway call is between its first attempt and its return or
\* failure, no step emits a progress update or changes the session, the
\* run's argument or an array; and the orchestrator never changes the
\* unlinkedNotes array of the session it was given nor an array it has
\* reported: each still holds the items it held when it was passed or reported.
C38_GatewayAndArraysFrame ==
  /\ []ArraysFrame
  /\ [][GatewayFrame]_vars
  /\ [][ArgumentFrame]_vars

\* a run has reported its first note, pushed and reported the second, and
\* is retrying a call: the first array reported still holds one note
C38_Witness ==
  /\ Len(arrays.emitted) = 2
  /\ Len(arrays.cells[arrays.emitted[1]]) = 1
  /\ Len(arrays.cells[arrays.local]) = 2
  /\ arrays.cells[arrays.passed] = <<>>
  /\ gpc = "backoff"
  /\ NumFails = 1

====
